---- MODULE Spec2Model ----
(***************************************************************************)
(* Model of the Sami node core: the synchronous job system (sami/jobs.py), *)
(* the network dispatch threads (sami/threads/network.py) and the          *)
(* structural validator (sami/validation.py).                              *)
(***************************************************************************)
EXTENDS Integers, Sequences, FiniteSets, TLC

(***************************************************************************)
(* Bounds of the model.                                                    *)
(***************************************************************************)
\* Total time the scheduler may spend waiting on its stop event.
MaxElapsed == 21
\* Largest number of jobs in the list handed to Jobs.
MaxJobs == 2
\* Number of run_all / run calls the owner of a Jobs object makes.
MaxCalls == 2

\* Number of entries the producers put on the two network queues.
MaxEntries == 3

\* Levels of nested schemas inside the schema validate_fields is given.
MaxDepth == 1

\* Intervals (sch) the jobs are created with.
Intervals == {0, 2, 5, 10}
\* Values of Config.mp_timeout, the base polling interval.
Timeouts == {1, 3}

(***************************************************************************)
(* State of the job system.                                                *)
(***************************************************************************)
VARIABLES
    jobs,        \* Jobs.jobs: the list of Job objects, in list order
    stop_event,  \* Jobs.stop_event: is the event set
    stop_delay,  \* Config.mp_timeout as read by Jobs.run
    jpc,         \* position of the thread that owns the Jobs object
    idx,         \* index of the running "for job in self.jobs" loop
    next_job,    \* id of the Job that next_job refers to (0: none)
    to_wait,     \* local to_wait of Jobs.run
    waited,      \* time spent so far in the current stop_event.wait
    elapsed,     \* total time spent in stop_event.wait
    fired,       \* per job id: action invocations during the current call
    calls        \* number of run_all / run calls made so far

jvars == <<jobs, stop_event, stop_delay, jpc, idx, next_job, to_wait,
           waited, elapsed, fired, calls>>

(***************************************************************************)
(* State of the network threads.                                           *)
(***************************************************************************)
VARIABLES
    key_loaded,    \* value of is_private_key_loaded()
    global_stop,   \* global_app_stop_event: is it set
    in_stop,       \* RequestHandlingThread._stop_event: is it set
    out_stop,      \* SenderThread._stop_event: is it set
    handle_queue,  \* networks.handle_queue
    send_queue,    \* networks.send_queue
    ipc,           \* position of RequestHandlingThread.run
    opc,           \* position of SenderThread.run
    in_cur,        \* (raw_req, from_address) in hand (0: none)
    out_cur,       \* (network, request, contact) in hand (0: none)
    next_id,       \* identity of the next entry a producer enqueues
    enq_in,        \* history: entries put on handle_queue, in order
    enq_out,       \* history: entries put on send_queue, in order
    handled_in,    \* history: entries passed to handler(...), in order
    sent,          \* history: entries passed to _send_request, in order
    key_seen,      \* history: run has read is_private_key_loaded() as True
    stop_in_wait   \* history: a stop event was set during the key wait

nvars == <<key_loaded, global_stop, in_stop, out_stop, handle_queue,
           send_queue, ipc, opc, in_cur, out_cur, next_id, enq_in, enq_out,
           handled_in, sent, key_seen, stop_in_wait>>

(***************************************************************************)
(* State of one call of validate_fields.                                   *)
(***************************************************************************)
VARIABLES
    v_struct,    \* the struct argument
    v_case,      \* the dictionary argument and how it relates to struct
    v_pc,        \* "call", then "returned" or "raised"
    v_result     \* "True" or "False" returned, "KeyError" raised

vvars == <<v_struct, v_case, v_pc, v_result>>

(***************************************************************************)
(* What an observer of the job system and of the threads records.          *)
(***************************************************************************)
VARIABLES
    counting,        \* are elapsed, fired and subtracted being counted
    before,          \* per job id: remaining_time when the iteration began
    fired_before,    \* fired when the iteration began
    subtracted,      \* total of to_wait over the iterations of Jobs.run
    in_at_stop,      \* when the first stop event of RequestHandlingThread
                     \* was set: the number of entries it had taken off its
                     \* queue (-1: none set) and the queue
    out_at_stop      \* the same for SenderThread

(***************************************************************************)
(* A call of is_valid_node or of verify_received_aes_key, and a use of     *)
(* validate_export_structure (validation.py).                              *)
(***************************************************************************)
VARIABLES
    t_input,         \* node_data, or the AES key dict
    t_pub,           \* the RSA public key: constructed, or the author's
    t_pc,            \* where the call is
    t_result,        \* "none", "True", "False", or the exception raised
    t_checks,        \* the checks made so far, in the order they were made
    x_args,          \* *struct_name of validate_export_structure
    x_case,          \* the dict the wrapped function returns
    x_pc,            \* where the decoration and the call are
    x_result         \* what the decoration or the call came to

tvars == <<t_input, t_pub, t_pc, t_result, t_checks>>

xvars == <<x_args, x_case, x_pc, x_result>>

hvars == <<counting, before, fired_before, subtracted>>

svars == <<in_at_stop, out_at_stop>>

vars == <<jvars, nvars, vvars, hvars, svars, tvars, xvars>>

(***************************************************************************)
(* Job (jobs.py, class Job).                                               *)
(***************************************************************************)
Job(id, sch) == [id |-> id, default_schedule |-> sch, remaining_time |-> sch]

\* An in-place subtraction that adds.
isubAdds(job, val) == [job EXCEPT !.remaining_time = @ + val]

isub(job, val) == [job EXCEPT !.remaining_time = @ - val]

\* A reset that leaves remaining_time as it is.
resetKeeps(job) == job

reset(job) == [job EXCEPT !.remaining_time = job.default_schedule]

\* The outcomes of calling a job's action: it returns or it raises.
ActionOutcomes == {"returns", "raises"}

(***************************************************************************)
(* list.sort(key=lambda x: x.remaining_time): a stable ascending sort.     *)
(***************************************************************************)
RECURSIVE InsertByRemaining(_, _)
InsertByRemaining(job, sorted) ==
    IF sorted = <<>> THEN <<job>>
    ELSE IF job.remaining_time < Head(sorted).remaining_time
         THEN <<job>> \o sorted
         ELSE <<Head(sorted)>> \o InsertByRemaining(job, Tail(sorted))

RECURSIVE SortFrom(_, _)
SortFrom(js, sorted) ==
    IF js = <<>> THEN sorted
    ELSE SortFrom(Tail(js), InsertByRemaining(Head(js), sorted))

SortByRemaining(js) == SortFrom(js, <<>>)

\* A wait amount that is always the whole delay.
ToWaitDelay(delay, job) == delay

\* to_wait = stop_delay if stop_delay < next_job.remaining_time
\*           else next_job.remaining_time
ToWait(delay, job) ==
    IF delay < job.remaining_time THEN delay ELSE job.remaining_time

\* Position in the list of the Job object with this id.
IndexOf(js, id) == CHOOSE k \in 1..Len(js) : js[k].id = id

JobOf(js, id) == js[IndexOf(js, id)]

JobIds == 1..MaxJobs

\* remaining_time of every job of the list, by job id.
RemainingById(js) ==
    [j \in {js[k].id : k \in 1..Len(js)} |-> JobOf(js, j).remaining_time]

NoFired == [j \in JobIds |-> 0]

\* Positions from which the owning thread can make a call on the Jobs
\* object: before any call, and after a call has returned or has raised.
Callable == {"idle", "ra_returned", "ra_raised", "run_returned", "run_raised"}

(***************************************************************************)
(* Jobs.run_all                                                            *)
(***************************************************************************)
CallRunAll ==
    /\ jpc \in Callable
    /\ calls < MaxCalls
    /\ calls' = calls + 1
    /\ fired' = NoFired
    /\ idx' = 1
    /\ jpc' = IF Len(jobs) = 0 THEN "ra_returned" ELSE "ra_action"
    /\ UNCHANGED <<nvars, vvars, svars, tvars, xvars>>
    /\ UNCHANGED hvars
    /\ UNCHANGED <<jobs, stop_event, stop_delay, next_job, to_wait, waited, elapsed>>

\* for job in self.jobs: job.run_action()
RunAllAction ==
    /\ jpc = "ra_action"
    /\ fired' = [fired EXCEPT ![jobs[idx].id] = @ + 1]
    /\ \E outcome \in ActionOutcomes :
          jpc' = IF outcome = "returns" THEN "ra_reset" ELSE "ra_raised"
    /\ UNCHANGED <<nvars, vvars, svars, tvars, xvars>>
    /\ UNCHANGED hvars
    /\ UNCHANGED <<jobs, stop_event, stop_delay, idx, next_job, to_wait,
                   waited, elapsed, calls>>

\* job.reset(), then the next job of the list or the return of run_all
RunAllReset ==
    /\ jpc = "ra_reset"
    /\ jobs' = [jobs EXCEPT ![idx] = reset(@)]
    /\ idx' = idx + 1
    /\ jpc' = IF idx = Len(jobs) THEN "ra_returned" ELSE "ra_action"
    /\ UNCHANGED <<nvars, vvars, svars, tvars, xvars>>
    /\ UNCHANGED hvars
    /\ UNCHANGED <<stop_event, stop_delay, next_job, to_wait, waited,
                   elapsed, fired, calls>>

(***************************************************************************)
(* Jobs.run                                                                *)
(***************************************************************************)
CallRun ==
    /\ jpc \in Callable
    /\ calls < MaxCalls
    /\ calls' = calls + 1
    /\ fired' = NoFired
    /\ waited' = 0
    /\ jpc' = "wait"
    /\ UNCHANGED <<nvars, vvars, svars, tvars, xvars>>
    /\ UNCHANGED hvars
    /\ UNCHANGED <<jobs, stop_event, stop_delay, idx, next_job, to_wait, elapsed>>

\* One unit of time passes inside stop_event.wait(stop_delay).
Tick ==
    /\ jpc = "wait"
    /\ ~stop_event
    /\ waited < stop_delay
    /\ counting => elapsed < MaxElapsed
    /\ waited' = waited + 1
    /\ elapsed' = IF counting THEN elapsed + 1 ELSE elapsed
    /\ UNCHANGED <<nvars, vvars, svars, tvars, xvars>>
    /\ UNCHANGED hvars
    /\ UNCHANGED <<jobs, stop_event, stop_delay, jpc, idx, next_job, to_wait,
                   fired, calls>>

\* A wait whose True result does not end the loop.
WaitSignaledIgnored ==
    /\ jpc = "wait"
    /\ stop_event
    /\ jobs' = SortByRemaining(jobs)
    /\ next_job' = jobs'[1].id
    /\ to_wait' = ToWait(stop_delay, jobs'[1])
    /\ idx' = 1
    /\ jpc' = "sub"
    /\ before' = RemainingById(jobs)
    /\ fired_before' = fired
    /\ subtracted' = IF counting THEN subtracted + to_wait' ELSE subtracted
    /\ UNCHANGED counting
    /\ UNCHANGED <<nvars, vvars, svars, tvars, xvars>>
    /\ UNCHANGED <<stop_event, stop_delay, waited, elapsed, fired, calls>>

\* stop_event.wait returns True: the while loop ends and run returns.
WaitSignaled ==
    /\ jpc = "wait"
    /\ stop_event
    /\ jpc' = "run_returned"
    /\ UNCHANGED <<nvars, vvars, svars, tvars, xvars>>
    /\ UNCHANGED hvars
    /\ UNCHANGED <<jobs, stop_event, stop_delay, idx, next_job, to_wait,
                   waited, elapsed, fired, calls>>

\* stop_event.wait returns False after the whole of stop_delay; the body
\* sorts the list, takes its first job and computes to_wait.
WaitTimeout ==
    /\ jpc = "wait"
    /\ ~stop_event
    /\ waited = stop_delay
    /\ jobs' = SortByRemaining(jobs)
    /\ next_job' = jobs'[1].id
    /\ to_wait' = ToWait(stop_delay, jobs'[1])
    /\ idx' = 1
    /\ jpc' = "sub"
    /\ before' = RemainingById(jobs)
    /\ fired_before' = fired
    /\ subtracted' = IF counting THEN subtracted + to_wait' ELSE subtracted
    /\ UNCHANGED counting
    /\ UNCHANGED <<nvars, vvars, svars, tvars, xvars>>
    /\ UNCHANGED <<stop_event, stop_delay, waited, elapsed, fired, calls>>

\* for job in self.jobs: job -= to_wait
Sub ==
    /\ jpc = "sub"
    /\ jobs' = [jobs EXCEPT ![idx] = isub(@, to_wait)]
    /\ idx' = idx + 1
    /\ jpc' = IF idx = Len(jobs) THEN "check" ELSE "sub"
    /\ UNCHANGED <<nvars, vvars, svars, tvars, xvars>>
    /\ UNCHANGED hvars
    /\ UNCHANGED <<stop_event, stop_delay, next_job, to_wait, waited,
                   elapsed, fired, calls>>

\* if next_job.remaining_time <= 0: ... else back to the wait
Check ==
    /\ jpc = "check"
    /\ IF JobOf(jobs, next_job).remaining_time <= 0
       THEN jpc' = "run_action" /\ waited' = waited
       ELSE jpc' = "wait" /\ waited' = 0
    /\ UNCHANGED <<nvars, vvars, svars, tvars, xvars>>
    /\ UNCHANGED hvars
    /\ UNCHANGED <<jobs, stop_event, stop_delay, idx, next_job, to_wait,
                   elapsed, fired, calls>>

\* next_job.run_action()
RunAction ==
    /\ jpc = "run_action"
    /\ fired' = IF counting THEN [fired EXCEPT ![next_job] = @ + 1] ELSE fired
    /\ \E outcome \in ActionOutcomes :
          jpc' = IF outcome = "returns" THEN "reset" ELSE "run_raised"
    /\ UNCHANGED <<nvars, vvars, svars, tvars, xvars>>
    /\ UNCHANGED hvars
    /\ UNCHANGED <<jobs, stop_event, stop_delay, idx, next_job, to_wait,
                   waited, elapsed, calls>>

\* A reset of every job whose remaining_time has reached 0.
ResetAllDue ==
    /\ jpc = "reset"
    /\ jobs' = [k \in 1..Len(jobs) |->
                  IF jobs[k].remaining_time <= 0 THEN reset(jobs[k]) ELSE jobs[k]]
    /\ waited' = 0
    /\ jpc' = "wait"
    /\ UNCHANGED <<nvars, vvars, svars, tvars, xvars>>
    /\ UNCHANGED hvars
    /\ UNCHANGED <<stop_event, stop_delay, idx, next_job, to_wait, elapsed,
                   fired, calls>>

\* next_job.reset(), then the next stop_event.wait
Reset ==
    /\ jpc = "reset"
    /\ jobs' = [jobs EXCEPT ![IndexOf(jobs, next_job)] = reset(@)]
    /\ waited' = 0
    /\ jpc' = "wait"
    /\ UNCHANGED <<nvars, vvars, svars, tvars, xvars>>
    /\ UNCHANGED hvars
    /\ UNCHANGED <<stop_event, stop_delay, idx, next_job, to_wait, elapsed,
                   fired, calls>>

\* Another thread sets the stop event.
SetStop ==
    /\ ~stop_event
    /\ stop_event' = TRUE
    /\ UNCHANGED <<nvars, vvars, svars, tvars, xvars>>
    /\ UNCHANGED hvars
    /\ UNCHANGED <<jobs, stop_delay, jpc, idx, next_job, to_wait, waited,
                   elapsed, fired, calls>>

(***************************************************************************)
(* RequestHandlingThread.run (threads/network.py).  Every read of an       *)
(* event or of is_private_key_loaded() is a step of its own; "and" and     *)
(* "or" evaluate their operands from left to right and stop early.         *)
(***************************************************************************)
in_frame == <<key_loaded, global_stop, in_stop, out_stop, send_queue, opc,
              out_cur, next_id, enq_in, enq_out, sent, stop_in_wait,
              in_at_stop, out_at_stop>>

\* A key wait that ends while the key is not loaded (the "not" dropped).
InKeyWaitKeyInverted ==
    /\ ipc = "kw_key"
    /\ ipc' = IF key_loaded THEN "kw_global" ELSE "if_global"
    /\ key_seen' = (key_seen \/ key_loaded)
    /\ UNCHANGED <<handle_queue, in_cur, handled_in>>
    /\ UNCHANGED in_frame /\ UNCHANGED <<jvars, vvars, hvars, tvars, xvars>>

\* while not is_private_key_loaded() ...
InKeyWaitKey ==
    /\ ipc = "kw_key"
    /\ ipc' = IF key_loaded THEN "if_global" ELSE "kw_global"
    /\ key_seen' = (key_seen \/ key_loaded)
    /\ UNCHANGED <<handle_queue, in_cur, handled_in>>
    /\ UNCHANGED in_frame /\ UNCHANGED <<jvars, vvars, hvars, tvars, xvars>>

\* ... and not self.global_app_stop_event.is_set() ...
InKeyWaitGlobal ==
    /\ ipc = "kw_global"
    /\ ipc' = IF global_stop THEN "if_global" ELSE "kw_stop"
    /\ UNCHANGED <<handle_queue, in_cur, handled_in, key_seen>>
    /\ UNCHANGED in_frame /\ UNCHANGED <<jvars, vvars, hvars, tvars, xvars>>

\* ... and not self._stop_event.is_set():
InKeyWaitStop ==
    /\ ipc = "kw_stop"
    /\ ipc' = IF in_stop THEN "if_global" ELSE "kw_sleep"
    /\ UNCHANGED <<handle_queue, in_cur, handled_in, key_seen>>
    /\ UNCHANGED in_frame /\ UNCHANGED <<jvars, vvars, hvars, tvars, xvars>>

\* time.sleep(2) of the key wait
InKeyWaitSleep ==
    /\ ipc = "kw_sleep"
    /\ ipc' = "kw_key"
    /\ UNCHANGED <<handle_queue, in_cur, handled_in, key_seen>>
    /\ UNCHANGED in_frame /\ UNCHANGED <<jvars, vvars, hvars, tvars, xvars>>

\* if self.global_app_stop_event.is_set() ...: return
InIfGlobal ==
    /\ ipc = "if_global"
    /\ ipc' = IF global_stop THEN "done" ELSE "if_stop"
    /\ UNCHANGED <<handle_queue, in_cur, handled_in, key_seen>>
    /\ UNCHANGED in_frame /\ UNCHANGED <<jvars, vvars, hvars, tvars, xvars>>

\* ... or self._stop_event.is_set(): return
InIfStop ==
    /\ ipc = "if_stop"
    /\ ipc' = IF in_stop THEN "done" ELSE "ml_global"
    /\ UNCHANGED <<handle_queue, in_cur, handled_in, key_seen>>
    /\ UNCHANGED in_frame /\ UNCHANGED <<jvars, vvars, hvars, tvars, xvars>>

\* while not self.global_app_stop_event.is_set() ...
InLoopGlobal ==
    /\ ipc = "ml_global"
    /\ ipc' = IF global_stop THEN "done" ELSE "ml_stop"
    /\ UNCHANGED <<handle_queue, in_cur, handled_in, key_seen>>
    /\ UNCHANGED in_frame /\ UNCHANGED <<jvars, vvars, hvars, tvars, xvars>>

\* A main loop that does not look at the thread's own stop event.
InLoopStopIgnored ==
    /\ ipc = "ml_stop"
    /\ ipc' = "get"
    /\ UNCHANGED <<handle_queue, in_cur, handled_in, key_seen>>
    /\ UNCHANGED in_frame /\ UNCHANGED <<jvars, vvars, hvars, tvars, xvars>>

\* ... and not self._stop_event.is_set():
InLoopStop ==
    /\ ipc = "ml_stop"
    /\ ipc' = IF in_stop THEN "done" ELSE "get"
    /\ UNCHANGED <<handle_queue, in_cur, handled_in, key_seen>>
    /\ UNCHANGED in_frame /\ UNCHANGED <<jvars, vvars, hvars, tvars, xvars>>

\* self.networks.handle_queue.get(block=False): the oldest entry, or
\* queue.Empty and then time.sleep(2)
InGet ==
    /\ ipc = "get"
    /\ IF handle_queue = <<>>
       THEN /\ ipc' = "sleep"
            /\ UNCHANGED <<handle_queue, in_cur>>
       ELSE /\ in_cur' = Head(handle_queue)
            /\ handle_queue' = Tail(handle_queue)
            /\ ipc' = "handle"
    /\ UNCHANGED <<handled_in, key_seen>>
    /\ UNCHANGED in_frame /\ UNCHANGED <<jvars, vvars, hvars, tvars, xvars>>

\* the end of time.sleep(2) after queue.Empty
InSleep ==
    /\ ipc = "sleep"
    /\ ipc' = "ml_global"
    /\ UNCHANGED <<handle_queue, in_cur, handled_in, key_seen>>
    /\ UNCHANGED in_frame /\ UNCHANGED <<jvars, vvars, hvars, tvars, xvars>>

\* What RequestsHandler.__call__ does with a request: it returns, or it
\* raises.
HandleOutcomes == {"returns", "raises"}

\* handler(raw_req, from_address), in the else clause of the try: no handler
\* of run covers it, so an error it raises ends run.
InHandle ==
    /\ ipc = "handle"
    /\ handled_in' = Append(handled_in, in_cur)
    /\ in_cur' = 0
    /\ \E outcome \in HandleOutcomes :
          ipc' = IF outcome = "returns" THEN "ml_global" ELSE "raised"
    /\ UNCHANGED <<handle_queue, key_seen>>
    /\ UNCHANGED in_frame /\ UNCHANGED <<jvars, vvars, hvars, tvars, xvars>>

InboundStep ==
    \/ InKeyWaitKey
    \/ InKeyWaitGlobal
    \/ InKeyWaitStop
    \/ InKeyWaitSleep
    \/ InIfGlobal
    \/ InIfStop
    \/ InLoopGlobal
    \/ InLoopStop
    \/ InGet
    \/ InSleep
    \/ InHandle

(***************************************************************************)
(* SenderThread.run (threads/network.py).                                  *)
(***************************************************************************)
out_frame == <<key_loaded, global_stop, in_stop, out_stop, handle_queue, ipc,
               in_cur, next_id, enq_in, enq_out, handled_in, key_seen,
               stop_in_wait, in_at_stop, out_at_stop>>

\* while not self.global_app_stop_event.is_set() ...
OutLoopGlobal ==
    /\ opc = "ml_global"
    /\ opc' = IF global_stop THEN "done" ELSE "ml_stop"
    /\ UNCHANGED <<send_queue, out_cur, sent>>
    /\ UNCHANGED out_frame /\ UNCHANGED <<jvars, vvars, hvars, tvars, xvars>>

\* A loop condition that does not read the thread's own stop event.
OutLoopStopIgnored ==
    /\ opc = "ml_stop"
    /\ opc' = "get"
    /\ UNCHANGED <<send_queue, out_cur, sent>>
    /\ UNCHANGED out_frame /\ UNCHANGED <<jvars, vvars, hvars, tvars, xvars>>

\* ... and not self._stop_event.is_set():
OutLoopStop ==
    /\ opc = "ml_stop"
    /\ opc' = IF out_stop THEN "done" ELSE "get"
    /\ UNCHANGED <<send_queue, out_cur, sent>>
    /\ UNCHANGED out_frame /\ UNCHANGED <<jvars, vvars, hvars, tvars, xvars>>

\* A get that reads the oldest entry and leaves it on the queue.
OutGetPeek ==
    /\ opc = "get"
    /\ IF send_queue = <<>>
       THEN /\ opc' = "sleep"
            /\ UNCHANGED out_cur
       ELSE /\ out_cur' = Head(send_queue)
            /\ opc' = "send"
    /\ UNCHANGED <<send_queue, sent>>
    /\ UNCHANGED out_frame /\ UNCHANGED <<jvars, vvars, hvars, tvars, xvars>>

\* self.networks.send_queue.get(block=False): the oldest entry, or
\* queue.Empty and then time.sleep(2)
OutGet ==
    /\ opc = "get"
    /\ IF send_queue = <<>>
       THEN /\ opc' = "sleep"
            /\ UNCHANGED <<send_queue, out_cur>>
       ELSE /\ out_cur' = Head(send_queue)
            /\ send_queue' = Tail(send_queue)
            /\ opc' = "send"
    /\ UNCHANGED sent
    /\ UNCHANGED out_frame /\ UNCHANGED <<jvars, vvars, hvars, tvars, xvars>>

\* the end of time.sleep(2) after queue.Empty
OutSleep ==
    /\ opc = "sleep"
    /\ opc' = "ml_global"
    /\ UNCHANGED <<send_queue, out_cur, sent>>
    /\ UNCHANGED out_frame /\ UNCHANGED <<jvars, vvars, hvars, tvars, xvars>>

\* What network._send_request does with a request: it returns, or it raises
\* the error of a failed transport.
SendOutcomes == {"returns", "raises"}

\* network._send_request(request, contact), in the else clause of the try:
\* no handler of run covers it, so an error it raises ends run.
OutSend ==
    /\ opc = "send"
    /\ sent' = Append(sent, out_cur)
    /\ out_cur' = 0
    /\ \E outcome \in SendOutcomes :
          opc' = IF outcome = "returns" THEN "ml_global" ELSE "raised"
    /\ UNCHANGED send_queue
    /\ UNCHANGED out_frame /\ UNCHANGED <<jvars, vvars, hvars, tvars, xvars>>

OutboundStep ==
    \/ OutLoopGlobal
    \/ OutLoopStop
    \/ OutGet
    \/ OutSleep
    \/ OutSend

(***************************************************************************)
(* The environment of the two threads: the producers of the queues, the    *)
(* loading of the private key and the setting of the stop events.          *)
(***************************************************************************)
KeyWait == {"kw_key", "kw_global", "kw_stop", "kw_sleep"}

\* Number of entries each thread has taken off its queue so far.
InDequeued == Len(handled_in) + (IF in_cur = 0 THEN 0 ELSE 1)

OutDequeued == Len(sent) + (IF out_cur = 0 THEN 0 ELSE 1)

\* What is recorded of a thread when the first of its stop events is set.
AtStop(dequeued, queue) == [deq |-> dequeued, queue |-> queue]

EnqueueIn ==
    /\ next_id <= MaxEntries
    /\ handle_queue' = Append(handle_queue, next_id)
    /\ enq_in' = Append(enq_in, next_id)
    /\ next_id' = next_id + 1
    /\ UNCHANGED <<key_loaded, global_stop, in_stop, out_stop, send_queue,
                   ipc, opc, in_cur, out_cur, enq_out, handled_in, sent,
                   key_seen, stop_in_wait>>
    /\ UNCHANGED svars
    /\ UNCHANGED <<jvars, vvars, hvars, tvars, xvars>>

EnqueueOut ==
    /\ next_id <= MaxEntries
    /\ send_queue' = Append(send_queue, next_id)
    /\ enq_out' = Append(enq_out, next_id)
    /\ next_id' = next_id + 1
    /\ UNCHANGED <<key_loaded, global_stop, in_stop, out_stop, handle_queue,
                   ipc, opc, in_cur, out_cur, enq_in, handled_in, sent,
                   key_seen, stop_in_wait>>
    /\ UNCHANGED svars
    /\ UNCHANGED <<jvars, vvars, hvars, tvars, xvars>>

LoadKey ==
    /\ ~key_loaded
    /\ key_loaded' = TRUE
    /\ UNCHANGED <<global_stop, in_stop, out_stop, handle_queue, send_queue,
                   ipc, opc, in_cur, out_cur, next_id, enq_in, enq_out,
                   handled_in, sent, key_seen, stop_in_wait>>
    /\ UNCHANGED svars
    /\ UNCHANGED <<jvars, vvars, hvars, tvars, xvars>>

SetGlobalStop ==
    /\ ~global_stop
    /\ global_stop' = TRUE
    /\ stop_in_wait' = (stop_in_wait \/ ipc \in KeyWait)
    /\ in_at_stop' = IF in_stop THEN in_at_stop ELSE AtStop(InDequeued, handle_queue)
    /\ out_at_stop' = IF out_stop THEN out_at_stop ELSE AtStop(OutDequeued, send_queue)
    /\ UNCHANGED <<key_loaded, in_stop, out_stop, handle_queue, send_queue,
                   ipc, opc, in_cur, out_cur, next_id, enq_in, enq_out,
                   handled_in, sent, key_seen>>
    /\ UNCHANGED <<jvars, vvars, hvars, tvars, xvars>>

SetInStop ==
    /\ ~in_stop
    /\ in_stop' = TRUE
    /\ stop_in_wait' = (stop_in_wait \/ ipc \in KeyWait)
    /\ in_at_stop' = IF global_stop THEN in_at_stop ELSE AtStop(InDequeued, handle_queue)
    /\ UNCHANGED out_at_stop
    /\ UNCHANGED <<key_loaded, global_stop, out_stop, handle_queue, send_queue,
                   ipc, opc, in_cur, out_cur, next_id, enq_in, enq_out,
                   handled_in, sent, key_seen>>
    /\ UNCHANGED <<jvars, vvars, hvars, tvars, xvars>>

SetOutStop ==
    /\ ~out_stop
    /\ out_stop' = TRUE
    /\ out_at_stop' = IF global_stop THEN out_at_stop ELSE AtStop(OutDequeued, send_queue)
    /\ UNCHANGED in_at_stop
    /\ UNCHANGED <<key_loaded, global_stop, in_stop, handle_queue, send_queue,
                   ipc, opc, in_cur, out_cur, next_id, enq_in, enq_out,
                   handled_in, sent, key_seen, stop_in_wait>>
    /\ UNCHANGED <<jvars, vvars, hvars, tvars, xvars>>

EnvStep ==
    \/ EnqueueIn
    \/ EnqueueOut
    \/ LoadKey
    \/ SetGlobalStop
    \/ SetInStop
    \/ SetOutStop

NetStep ==
    \/ InboundStep
    \/ OutboundStep
    \/ EnvStep

(***************************************************************************)
(* Python values as validate_fields sees them (validation.py).  A value    *)
(* is [ty, s, d]: ty is the name of type(value); s is the text of a        *)
(* scalar, or the name of the type when the value is a type object; d is   *)
(* the items of a dict, in insertion order, as <<name, value>> pairs.      *)
(***************************************************************************)
PyInt(text) == [ty |-> "int", s |-> text, d |-> <<>>]
PyStr(text) == [ty |-> "str", s |-> text, d |-> <<>>]
PyFloat(text) == [ty |-> "float", s |-> text, d |-> <<>>]
PyType(name) == [ty |-> "type", s |-> name, d |-> <<>>]
PyDict(items) == [ty |-> "dict", s |-> "", d |-> items]

Range(seq) == {seq[k] : k \in 1..Len(seq)}

\* name in d
Has(dict, name) == \E k \in 1..Len(dict.d) : dict.d[k][1] = name

\* d[name], for a name in d
Get(dict, name) == dict.d[CHOOSE k \in 1..Len(dict.d) : dict.d[k][1] = name][2]

\* Strings made of digits only.
DigitStrings == {"12"}

\* utils.is_int: a native integer, or a string of digits.
is_int(value) ==
    \/ value.ty = "int"
    \/ value.ty = "str" /\ value.s \in DigitStrings

(***************************************************************************)
(* validate_fields (validation.py).  The result is "True" or "False", or   *)
(* "KeyError" when the lookup of a missing key raises outside the try.     *)
(***************************************************************************)
RECURSIVE validate_fields(_, _)
RECURSIVE ValidateItems(_, _, _)
RECURSIVE ValidateItem(_, _, _, _)

\* One turn of "for field_name, field_value in struct.items()": a result
\* that ends the call, or "next" for the next turn.
ValidateItem(dictionary, struct, field_name, field_value) ==
    IF field_value.ty # "type"
    THEN \* type(field_value) is not type
         IF ~Has(dictionary, field_name) THEN "KeyError"
         ELSE IF Get(dictionary, field_name).ty # field_value.ty THEN "False"
         ELSE LET inner == validate_fields(Get(struct, field_name), field_value)
              IN  IF inner = "True" THEN "next" ELSE inner
    ELSE \* the value is a type object; KeyError is caught here.  The
         \* first test is type(field_value) == int, on the type of the
         \* type object itself.
         IF field_value.ty = "int"
         THEN IF ~Has(dictionary, field_name) THEN "False"
              ELSE IF ~is_int(Get(dictionary, field_name)) THEN "False"
              ELSE "next"
         ELSE IF ~Has(dictionary, field_name) THEN "False"
              ELSE IF Get(dictionary, field_name).ty # field_value.s THEN "False"
              ELSE "next"

\* The turns of the for loop from item k of struct on.
ValidateItems(dictionary, struct, k) ==
    IF k > Len(struct.d) THEN "True"
    ELSE LET r == ValidateItem(dictionary, struct, struct.d[k][1], struct.d[k][2])
         IN  IF r = "next" THEN ValidateItems(dictionary, struct, k + 1) ELSE r

validate_fields(dictionary, struct) ==
    IF dictionary.ty # "dict" THEN "False"
    ELSE IF struct.ty # "dict" THEN "False"
    ELSE IF Len(dictionary.d) # Len(struct.d) THEN "False"
    ELSE ValidateItems(dictionary, struct, 1)

\* The call of validate_fields on the chosen arguments.
Validate ==
    /\ v_pc = "call"
    /\ v_result' = validate_fields(v_case.dictionary, v_struct)
    /\ v_pc' = IF v_result' = "KeyError" THEN "raised" ELSE "returned"
    /\ UNCHANGED <<v_struct, v_case>>
    /\ UNCHANGED <<jvars, nvars, hvars, svars, tvars, xvars>>

(***************************************************************************)
(* The arguments validate_fields is called with: well-formed schemas down  *)
(* to MaxDepth nested levels and, for each, the data that matches it and   *)
(* the data that differs from matching data in one field.                  *)
(***************************************************************************)
\* Field names, in the order the dicts are built with.
FieldNames == <<"a", "b">>

\* A name no schema uses.
OtherName == "z"

TypeMarkers == {PyType("int"), PyType("str")}

\* The dicts whose keys are some of FieldNames and whose values are in vals.
ItemsOf(f) ==
    LET names == SelectSeq(FieldNames, LAMBDA n : n \in DOMAIN f)
    IN  [k \in 1..Len(names) |-> <<names[k], f[names[k]]>>]

DictsOver(vals) ==
    {PyDict(ItemsOf(f)) :
        f \in UNION {[N -> vals] : N \in SUBSET {FieldNames[k] : k \in 1..Len(FieldNames)}}}

RECURSIVE SchemasOfDepth(_)
SchemasOfDepth(n) ==
    IF n = 0 THEN DictsOver(TypeMarkers)
    ELSE DictsOver(TypeMarkers \cup SchemasOfDepth(n - 1))

Schemas == SchemasOfDepth(MaxDepth)

\* A value of the type a marker names.
SampleOf(marker) == IF marker.s = "int" THEN PyInt("7") ELSE PyStr("ab")

\* Values a field can be changed to; those of another type change its type.
Replacements == {PyInt("7"), PyStr("ab"), PyFloat("1.5"), PyDict(<<>>)}

\* The data that matches a schema: the same names, a value of the declared
\* type under each, matching data under each nested schema.
RECURSIVE Matching(_)
Matching(schema) ==
    PyDict([k \in 1..Len(schema.d) |->
            <<schema.d[k][1],
              IF schema.d[k][2].ty = "type" THEN SampleOf(schema.d[k][2])
              ELSE Matching(schema.d[k][2])>>])

\* seq without its k-th element
Without(seq, k) == SubSeq(seq, 1, k - 1) \o SubSeq(seq, k + 1, Len(seq))

\* The dicts that are data with one field, at any level, removed.
RECURSIVE RemoveOne(_)
RemoveOne(data) ==
    {PyDict(Without(data.d, k)) : k \in 1..Len(data.d)}
    \cup UNION {{PyDict([data.d EXCEPT ![k] = <<data.d[k][1], inner>>]) :
                    inner \in RemoveOne(data.d[k][2])} :
                k \in {i \in 1..Len(data.d) : data.d[i][2].ty = "dict"}}

\* The dicts that are data with the value of one field, at any level,
\* replaced by a value of another type.
RECURSIVE RetypeOne(_)
RetypeOne(data) ==
    UNION {{PyDict([data.d EXCEPT ![k] = <<data.d[k][1], w>>]) :
               w \in {r \in Replacements : r.ty # data.d[k][2].ty}} :
           k \in 1..Len(data.d)}
    \cup UNION {{PyDict([data.d EXCEPT ![k] = <<data.d[k][1], inner>>]) :
                    inner \in RetypeOne(data.d[k][2])} :
                k \in {i \in 1..Len(data.d) : data.d[i][2].ty = "dict"}}

\* The dicts that are data with one top-level field under another name.
RenameOne(data) ==
    {PyDict([data.d EXCEPT ![k] = <<OtherName, data.d[k][2]>>]) : k \in 1..Len(data.d)}

\* The dicts that are matching data with the value of one top-level field
\* declared int replaced by value.
IntFieldAs(schema, value) ==
    {PyDict([Matching(schema).d EXCEPT ![k] = <<schema.d[k][1], value>>]) :
        k \in {i \in 1..Len(schema.d) : schema.d[i][2] = PyType("int")}}

Cases(schema) ==
    {[kind |-> "matching", dictionary |-> Matching(schema)]}
    \cup {[kind |-> "int_digits", dictionary |-> x] : x \in IntFieldAs(schema, PyStr("12"))}
    \cup {[kind |-> "int_float", dictionary |-> x] : x \in IntFieldAs(schema, PyFloat("1.5"))}
    \cup {[kind |-> "int_text", dictionary |-> x] : x \in IntFieldAs(schema, PyStr("ab"))}
    \cup {[kind |-> "removed", dictionary |-> x] : x \in RemoveOne(Matching(schema))}
    \cup {[kind |-> "retyped", dictionary |-> x] : x \in RetypeOne(Matching(schema))}
    \cup {[kind |-> "renamed", dictionary |-> x] : x \in RenameOne(Matching(schema))}

(***************************************************************************)
(* The cryptography and the structures the verifiers use (encryption.py,   *)
(* structures.py, config.py), by their contracts.  Keys, digests and       *)
(* signatures are named, not computed: a signature names the key that made *)
(* it and the digest it was made over.                                     *)
(***************************************************************************)
PyNone == [ty |-> "NoneType", s |-> "", d |-> <<>>]

\* Config.rsa_keys_length
rsa_keys_length == 2048

\* Moduli: two of the configured length, a shorter one, one that no key
\* can be constructed from.
Moduli == {"n_a", "n_b", "n_short", "n_bad"}

NoKey == [n |-> "", e |-> ""]

\* Encryption.construct_rsa_object: the key, or ValueError.
construct_rsa_object(rsa_n, rsa_e) ==
    IF rsa_n.s = "n_bad"
    THEN [outcome |-> "ValueError", key |-> NoKey]
    ELSE [outcome |-> "key", key |-> [n |-> rsa_n.s, e |-> rsa_e.s]]

size_in_bits(key) == IF key.n = "n_short" THEN 1024 ELSE rsa_keys_length

\* Encryption.get_public_key_hash: the hash object of a public key.
get_public_key_hash(key) ==
    [digest |-> CASE key.n = "n_a" -> "d_a"
                  [] key.n = "n_b" -> "d_b"
                  [] OTHER -> "d_short"]

\* Encryption.hash_iterable: the hash object of a value.
hash_iterable(value) ==
    [digest |-> IF value.s = "v1" THEN "d_v1" ELSE "d_v2"]

hexdigest(h) == h.digest

\* Encryption.deserialize_string: the signature a string stands for.
deserialize_string(text) ==
    CASE text.s = "sa_da" -> [by |-> "n_a", over |-> "d_a"]
      [] text.s = "sb_db" -> [by |-> "n_b", over |-> "d_b"]
      [] text.s = "ss_ds" -> [by |-> "n_short", over |-> "d_short"]
      [] text.s = "sa_db" -> [by |-> "n_a", over |-> "d_b"]
      [] text.s = "sa_dv1" -> [by |-> "n_a", over |-> "d_v1"]
      [] text.s = "sa_dv2" -> [by |-> "n_a", over |-> "d_v2"]
      [] text.s = "sb_dv1" -> [by |-> "n_b", over |-> "d_v1"]
      [] OTHER -> [by |-> "", over |-> ""]

\* Encryption.is_signature_valid(rsa_public_key, hash_object, sig)
is_signature_valid(rsa_public_key, h, sig) ==
    sig.by = rsa_public_key.n /\ sig.over = h.digest

\* Structures.node_structure
node_structure ==
    PyDict(<<<<"rsa_n", PyType("int")>>, <<"rsa_e", PyType("int")>>,
             <<"hash", PyType("str")>>, <<"sig", PyType("str")>>>>)

\* Structures.aes_key_structure
aes_key_structure ==
    PyDict(<<<<"value", PyType("str")>>, <<"hash", PyType("str")>>,
             <<"sig", PyType("str")>>>>)

(***************************************************************************)
(* is_valid_node (validation.py), check by check.                          *)
(***************************************************************************)
\* A check has failed: the call returns False.
ReturnFalse ==
    /\ t_result' = "False"
    /\ t_pc' = "returned"

t_frame == <<jvars, nvars, vvars, hvars, svars, xvars>>

\* if not validate_fields(node_data, Structures.node_structure): return False
NodeStructural ==
    /\ t_pc = "n_structural"
    /\ t_checks' = Append(t_checks, "structural")
    /\ LET valid == validate_fields(t_input, node_structure)
       IN  CASE valid = "True" -> t_pc' = "n_construct" /\ UNCHANGED t_result
             [] valid = "False" -> ReturnFalse
             [] OTHER -> t_result' = valid /\ t_pc' = "raised"
    /\ UNCHANGED <<t_input, t_pub>>
    /\ UNCHANGED t_frame

\* try: node_pubkey = Encryption.construct_rsa_object(...)
\* except ValueError: return False
NodeConstruct ==
    /\ t_pc = "n_construct"
    /\ t_checks' = Append(t_checks, "construct")
    /\ LET made == construct_rsa_object(Get(t_input, "rsa_n"), Get(t_input, "rsa_e"))
       IN  IF made.outcome = "ValueError"
           THEN ReturnFalse /\ UNCHANGED t_pub
           ELSE t_pub' = made.key /\ t_pc' = "n_size" /\ UNCHANGED t_result
    /\ UNCHANGED t_input
    /\ UNCHANGED t_frame

\* A size check that lets every key through.
NodeSizeSkipped ==
    /\ t_pc = "n_size"
    /\ t_checks' = Append(t_checks, "size")
    /\ t_pc' = "n_hash"
    /\ UNCHANGED <<t_input, t_pub, t_result>>
    /\ UNCHANGED t_frame

\* if node_pubkey.size_in_bits() != Config.rsa_keys_length: return False
NodeSize ==
    /\ t_pc = "n_size"
    /\ t_checks' = Append(t_checks, "size")
    /\ IF size_in_bits(t_pub) # rsa_keys_length
       THEN ReturnFalse
       ELSE t_pc' = "n_hash" /\ UNCHANGED t_result
    /\ UNCHANGED <<t_input, t_pub>>
    /\ UNCHANGED t_frame

\* hash_object = Encryption.get_public_key_hash(node_pubkey)
\* if hash_object.hexdigest() != node_data['hash']: return False
NodeHash ==
    /\ t_pc = "n_hash"
    /\ t_checks' = Append(t_checks, "hash")
    /\ IF hexdigest(get_public_key_hash(t_pub)) # Get(t_input, "hash").s
       THEN ReturnFalse
       ELSE t_pc' = "n_signature" /\ UNCHANGED t_result
    /\ UNCHANGED <<t_input, t_pub>>
    /\ UNCHANGED t_frame

\* if not Encryption.is_signature_valid(node_pubkey, hash_object,
\*        Encryption.deserialize_string(node_data['sig'])): return False
\* return True
NodeSignature ==
    /\ t_pc = "n_signature"
    /\ t_checks' = Append(t_checks, "signature")
    /\ IF ~is_signature_valid(t_pub, get_public_key_hash(t_pub),
                              deserialize_string(Get(t_input, "sig")))
       THEN ReturnFalse
       ELSE t_result' = "True" /\ t_pc' = "returned"
    /\ UNCHANGED <<t_input, t_pub>>
    /\ UNCHANGED t_frame

NodeStep ==
    \/ NodeStructural
    \/ NodeConstruct
    \/ NodeSize
    \/ NodeHash
    \/ NodeSignature

(***************************************************************************)
(* verify_received_aes_key (validation.py).                                *)
(***************************************************************************)
\* if not validate_fields(key, Structures.aes_key_structure): return False
AesStructural ==
    /\ t_pc = "a_structural"
    /\ t_checks' = Append(t_checks, "structural")
    /\ LET valid == validate_fields(t_input, aes_key_structure)
       IN  CASE valid = "True" -> t_pc' = "a_hash" /\ UNCHANGED t_result
             [] valid = "False" -> ReturnFalse
             [] OTHER -> t_result' = valid /\ t_pc' = "raised"
    /\ UNCHANGED <<t_input, t_pub>>
    /\ UNCHANGED t_frame

\* A hash comparison that lets every hash field through.
AesHashSkipped ==
    /\ t_pc = "a_hash"
    /\ t_checks' = Append(t_checks, "hash")
    /\ t_pc' = "a_signature"
    /\ UNCHANGED <<t_input, t_pub, t_result>>
    /\ UNCHANGED t_frame

\* h = Encryption.hash_iterable(value)
\* if h_str != h.hexdigest(): return False
AesHash ==
    /\ t_pc = "a_hash"
    /\ t_checks' = Append(t_checks, "hash")
    /\ LET value == Get(t_input, "value")
           h_str == Get(t_input, "hash").s
           h == hash_iterable(value)
       IN  IF h_str # hexdigest(h)
           THEN ReturnFalse
           ELSE t_pc' = "a_signature" /\ UNCHANGED t_result
    /\ UNCHANGED <<t_input, t_pub>>
    /\ UNCHANGED t_frame

\* if not Encryption.is_signature_valid(rsa_public_key, h, sig): return False
\* return True
AesSignature ==
    /\ t_pc = "a_signature"
    /\ t_checks' = Append(t_checks, "signature")
    /\ LET sig == deserialize_string(Get(t_input, "sig"))
           h == hash_iterable(Get(t_input, "value"))
       IN  IF ~is_signature_valid(t_pub, h, sig)
           THEN ReturnFalse
           ELSE t_result' = "True" /\ t_pc' = "returned"
    /\ UNCHANGED <<t_input, t_pub>>
    /\ UNCHANGED t_frame

AesStep ==
    \/ AesStructural
    \/ AesHash
    \/ AesSignature

(***************************************************************************)
(* validate_export_structure (validation.py): the decoration, then calls   *)
(* of the wrapper.                                                         *)
(***************************************************************************)
\* The names Structures.mapping knows, and one it does not know.
StructNames == <<"flat", "nested", "single">>

UnknownName == "missing"

\* Structures.mapping: the structure registered under a name, if any.
mapping(m) ==
    CASE m = "flat" -> PyDict(<<<<"a", PyType("int")>>, <<"b", PyType("str")>>>>)
      [] m = "nested" ->
            PyDict(<<<<"a", PyType("str")>>,
                     <<"b", PyDict(<<<<"a", PyType("int")>>>>)>>>>)
      [] m = "single" -> PyDict(<<<<"a", PyType("str")>>>>)
      [] OTHER -> PyNone

\* bool(value) of None and of a dict
Truthy(value) ==
    /\ value.ty # "NoneType"
    /\ ~(value.ty = "dict" /\ value.d = <<>>)

\* What a decoration or a call comes to: a value returned or an exception.
Returned(value) == [outcome |-> "returned", value |-> value]

Raised(exception) == [outcome |-> exception, value |-> PyNone]

NoCase == [kind |-> "none", dictionary |-> PyNone]

x_frame == <<jvars, nvars, vvars, hvars, svars, tvars>>

\* validate_export_structure(*struct_name), up to "return decorator"
Decorate ==
    /\ x_pc = "decorate"
    /\ IF Len(x_args) # 1
       THEN x_result' = Raised("Exception") /\ x_pc' = "config_error"
       ELSE IF ~Truthy(mapping(x_args[1]))
            THEN x_result' = Raised("Exception") /\ x_pc' = "config_error"
            ELSE x_pc' = "wrapped" /\ UNCHANGED x_result
    /\ UNCHANGED <<x_args, x_case>>
    /\ UNCHANGED x_frame

\* dic = func(*args, **kwargs): the wrapped function returns some dict.
WrapperCall ==
    /\ x_pc \in {"wrapped", "called"}
    /\ \E c \in Cases(mapping(x_args[1])) : x_case' = c
    /\ x_pc' = "validate"
    /\ UNCHANGED <<x_args, x_result>>
    /\ UNCHANGED x_frame

\* if validate_fields(dic, struct): return dic
\* else: raise ValueError("Invalid export structure.")
WrapperValidate ==
    /\ x_pc = "validate"
    /\ LET valid == validate_fields(x_case.dictionary, mapping(x_args[1]))
       IN  x_result' = CASE valid = "True" -> Returned(x_case.dictionary)
                         [] valid = "False" -> Raised("ValueError")
                         [] OTHER -> Raised(valid)
    /\ x_pc' = "called"
    /\ UNCHANGED <<x_args, x_case>>
    /\ UNCHANGED x_frame

ExportStep ==
    \/ Decorate
    \/ WrapperCall
    \/ WrapperValidate

(***************************************************************************)
(* Initial states.                                                         *)
(***************************************************************************)
\* Job lists after construction: every job has remaining_time = sch.
JobLists ==
    UNION {{[k \in 1..n |-> Job(k, f[k])] : f \in [1..n -> Intervals]} : n \in 1..MaxJobs}

JInitCommon ==
    /\ stop_event = FALSE
    /\ idx = 1
    /\ next_job = 0
    /\ to_wait = 0
    /\ waited = 0
    /\ elapsed = 0
    /\ fired = NoFired
    /\ before = RemainingById(jobs)
    /\ fired_before = NoFired
    /\ subtracted = 0

\* A Jobs object whose owner has made no call yet.
JInitIdle ==
    /\ jobs \in JobLists
    /\ stop_delay \in Timeouts
    /\ jpc = "idle"
    /\ calls = 0
    /\ counting = TRUE
    /\ JInitCommon

\* Jobs.run called on freshly constructed jobs; the lists include the one
\* of intervals 5 and 10.
JInitRun ==
    /\ jobs \in JobLists \cup {<<Job(1, 5), Job(2, 10)>>}
    /\ stop_delay \in Timeouts
    /\ jpc = "wait"
    /\ calls = 1
    /\ counting = TRUE
    /\ JInitCommon

\* Jobs.run called on freshly constructed jobs, without the counts of time
\* and of runs, so that the loop can be followed for ever.
JInitRunForever ==
    /\ jobs \in JobLists
    /\ stop_delay \in Timeouts
    /\ jpc = "wait"
    /\ calls = 1
    /\ counting = FALSE
    /\ JInitCommon

\* One fixed job system, for the specifications that leave it alone.
JInitFixed ==
    /\ jobs = <<Job(1, 5), Job(2, 10)>>
    /\ stop_delay = 3
    /\ jpc = "idle"
    /\ calls = 0
    /\ counting = TRUE
    /\ JInitCommon

\* Both threads started, nothing loaded, set or queued yet.
NInit ==
    /\ key_loaded = FALSE
    /\ global_stop = FALSE
    /\ in_stop = FALSE
    /\ out_stop = FALSE
    /\ handle_queue = <<>>
    /\ send_queue = <<>>
    /\ ipc = "kw_key"
    /\ opc = "ml_global"
    /\ in_cur = 0
    /\ out_cur = 0
    /\ next_id = 1
    /\ enq_in = <<>>
    /\ enq_out = <<>>
    /\ handled_in = <<>>
    /\ sent = <<>>
    /\ key_seen = FALSE
    /\ stop_in_wait = FALSE
    /\ in_at_stop = AtStop(-1, <<>>)
    /\ out_at_stop = AtStop(-1, <<>>)

\* validate_fields about to be called on a schema and one of its cases.
VInit ==
    /\ v_struct \in Schemas
    /\ v_case \in Cases(v_struct)
    /\ v_pc = "call"
    /\ v_result = "none"

\* One fixed call, for the specifications that leave the validator alone.
VInitFixed ==
    /\ v_struct = PyDict(<<>>)
    /\ v_case = [kind |-> "matching", dictionary |-> PyDict(<<>>)]
    /\ v_pc = "call"
    /\ v_result = "none"

\* No verifier has been called.
TInitFixed ==
    /\ t_input = PyDict(<<>>)
    /\ t_pub = NoKey
    /\ t_pc = "idle"
    /\ t_result = "none"
    /\ t_checks = <<>>

NodeOf(n, h, sig) ==
    PyDict(<<<<"rsa_n", PyInt(n)>>, <<"rsa_e", PyInt("e")>>,
             <<"hash", PyStr(h)>>, <<"sig", PyStr(sig)>>>>)

\* Nodes of the right structure, and one of them with a field removed,
\* retyped or renamed.
NodeData ==
    {NodeOf(n, h, sig) : n \in Moduli, h \in {"d_a", "d_b", "d_short"},
                         sig \in {"sa_da", "sb_db", "ss_ds", "sa_db"}}
    \cup RemoveOne(NodeOf("n_a", "d_a", "sa_da"))
    \cup RetypeOne(NodeOf("n_a", "d_a", "sa_da"))
    \cup RenameOne(NodeOf("n_a", "d_a", "sa_da"))

\* is_valid_node about to be called.
TInitNode ==
    /\ t_input \in NodeData
    /\ t_pub = NoKey
    /\ t_pc = "n_structural"
    /\ t_result = "none"
    /\ t_checks = <<>>

AesKeyOf(value, h, sig) ==
    PyDict(<<<<"value", PyStr(value)>>, <<"hash", PyStr(h)>>,
             <<"sig", PyStr(sig)>>>>)

AesKeys ==
    {AesKeyOf(v, h, sig) : v \in {"v1", "v2"}, h \in {"d_v1", "d_v2"},
                           sig \in {"sa_dv1", "sa_dv2", "sb_dv1"}}
    \cup RemoveOne(AesKeyOf("v1", "d_v1", "sa_dv1"))
    \cup RetypeOne(AesKeyOf("v1", "d_v1", "sa_dv1"))
    \cup RenameOne(AesKeyOf("v1", "d_v1", "sa_dv1"))

\* verify_received_aes_key about to be called with an author's key.
TInitAes ==
    /\ t_input \in AesKeys
    /\ t_pub \in {[n |-> "n_a", e |-> "e"], [n |-> "n_b", e |-> "e"]}
    /\ t_pc = "a_structural"
    /\ t_result = "none"
    /\ t_checks = <<>>

\* No use of validate_export_structure.
XInitFixed ==
    /\ x_args = <<>>
    /\ x_case = NoCase
    /\ x_pc = "idle"
    /\ x_result = Raised("none")

\* The argument lists of validate_export_structure: no name, one, two.
ExportArgs ==
    LET names == Range(StructNames) \cup {UnknownName}
    IN  {<<>>} \cup {<<m>> : m \in names} \cup {<<m, n>> : m \in names, n \in names}

\* validate_export_structure about to be called.
XInit ==
    /\ x_args \in ExportArgs
    /\ x_case = NoCase
    /\ x_pc = "decorate"
    /\ x_result = Raised("none")

RunStep ==
    \/ Tick
    \/ WaitSignaled
    \/ WaitTimeout
    \/ Sub
    \/ Check
    \/ RunAction
    \/ Reset
    \/ SetStop

\* The steps of the thread that executes Jobs.run.
LoopStep ==
    \/ Tick
    \/ WaitSignaled
    \/ WaitTimeout
    \/ Sub
    \/ Check
    \/ RunAction
    \/ Reset

JobsStep ==
    \/ CallRunAll
    \/ RunAllAction
    \/ RunAllReset
    \/ CallRun
    \/ RunStep

(***************************************************************************)
(* Specifications.                                                         *)
(***************************************************************************)
InitJobs == JInitIdle /\ NInit /\ VInitFixed /\ TInitFixed /\ XInitFixed

InitRun == JInitRun /\ NInit /\ VInitFixed /\ TInitFixed /\ XInitFixed

InitRunForever == JInitRunForever /\ NInit /\ VInitFixed /\ TInitFixed /\ XInitFixed

InitNet == JInitFixed /\ NInit /\ VInitFixed /\ TInitFixed /\ XInitFixed

InitValidate == JInitFixed /\ NInit /\ VInit /\ TInitFixed /\ XInitFixed

InitNode == JInitFixed /\ NInit /\ VInitFixed /\ TInitNode /\ XInitFixed

InitAes == JInitFixed /\ NInit /\ VInitFixed /\ TInitAes /\ XInitFixed

InitExport == JInitFixed /\ NInit /\ VInitFixed /\ TInitFixed /\ XInit

\* The job system driven by its owner: run_all and run, in any order.
Spec == InitJobs /\ [][JobsStep]_vars

\* One call of Jobs.run on freshly constructed jobs.
SpecRun == InitRun /\ [][RunStep]_vars

\* Jobs.run followed for ever: the thread that executes it keeps taking
\* steps while it has one to take.
SpecRunFair == InitRunForever /\ [][RunStep]_vars /\ WF_vars(LoopStep)

\* The two network threads and their environment.
SpecNet == InitNet /\ [][NetStep]_vars

\* The same, with each thread scheduled again and again: a thread that can
\* take a step (its sleep ends, its handler returns) eventually takes it.
SpecNetFair ==
    /\ InitNet
    /\ [][NetStep]_vars
    /\ WF_vars(InboundStep)
    /\ WF_vars(OutboundStep)

\* Calls of validate_fields.
SpecValidate == InitValidate /\ [][Validate]_vars

\* One call of is_valid_node.
SpecNode == InitNode /\ [][NodeStep]_vars

\* One call of verify_received_aes_key.
SpecAes == InitAes /\ [][AesStep]_vars

\* One decoration with validate_export_structure and calls of the wrapper.
SpecExport == InitExport /\ [][ExportStep]_vars

(***************************************************************************)
(* Claims about the job system.                                            *)
(***************************************************************************)
\* The scenario of C1: jobs of intervals 5 and 10, base polling interval 3.
Scenario510 ==
    /\ Len(jobs) = 2
    /\ JobOf(jobs, 1).default_schedule = 5
    /\ JobOf(jobs, 2).default_schedule = 10
    /\ stop_delay = 3

\* C1: with jobs of intervals 5 and 10 and T = 3, when 10 time units have
\* been waited on the stop event the 5-interval job has fired exactly once
\* and has been reset to 5 (it was reset at the firing, at elapsed 6, and the
\* iteration at elapsed 9 has subtracted 3 since, so 2 remain); when 20 time
\* units have been waited it has fired exactly twice.
C1_FiredOnceAtTenTwiceAtTwenty ==
    Scenario510 =>
        /\ elapsed = 10 => /\ fired[1] = 1
                           /\ JobOf(jobs, 1).remaining_time = 5 - 3
        /\ elapsed = 20 => fired[1] = 2

C1_Witness == Scenario510 /\ elapsed = 20 /\ fired[1] = 2 /\ fired[2] = 1

\* C2: a job action that raises does not halt the scheduler loop, and in
\* run_all the jobs after the failing one are still run and reset.
C2_JobFailureConfined ==
    /\ jpc # "run_raised"
    /\ jpc = "ra_raised" =>
          \A k \in 1..Len(jobs) :
              k > idx => /\ fired[jobs[k].id] = 1
                         /\ jobs[k].remaining_time = jobs[k].default_schedule

\* C3: when a call of run_all has ended, every job's action has been invoked
\* exactly once in it and every job has remaining_time = default_schedule.
C3_RunAllRunsEachOnceAndResets ==
    jpc \in {"ra_returned", "ra_raised"} =>
        \A k \in 1..Len(jobs) :
            /\ fired[jobs[k].id] = 1
            /\ jobs[k].remaining_time = jobs[k].default_schedule

\* C7: a wait on the stop event that finds it set ends Jobs.run, and once
\* run has returned no job action is started any more.
C7_StopEndsRun ==
    [][/\ (jpc = "wait" /\ stop_event /\ jpc' # jpc) => jpc' = "run_returned"
       /\ jpc = "run_returned" => (jpc' = "run_returned" /\ fired' = fired)]_vars

C7_Witness ==
    jpc = "run_returned" /\ stop_event /\ \E j \in JobIds : fired[j] > 0

(***************************************************************************)
(* Claims about the network threads.                                       *)
(***************************************************************************)
\* RequestHandlingThread.run has returned, or an error has ended it.
InTerminated == ipc \in {"done", "raised"}

\* SenderThread.run has returned, or an error has ended it.
OutTerminated == opc \in {"done", "raised"}

\* The entries of a sequence that is 0 when nothing is in hand.
InHand(cur) == IF cur = 0 THEN <<>> ELSE <<cur>>

\* C4: once the global stop event or a thread's own stop event is set, that
\* thread's run eventually ends, whatever is left on its queue.
C4_StopTerminatesWorkers ==
    /\ (global_stop \/ in_stop) ~> InTerminated
    /\ (global_stop \/ out_stop) ~> OutTerminated

\* Both threads ended by a stop event with entries still on both queues, the
\* inbound one past its key wait.
C4_Witness ==
    /\ ipc = "done" /\ opc = "done"
    /\ key_seen
    /\ handle_queue # <<>>
    /\ send_queue # <<>>

\* C5: the entries a thread has taken off its queue are the oldest ones put
\* on it, each passed to the handler once and in the order of their
\* enqueuing (the one in hand last), the rest are still queued, and no entry
\* is handled by both threads.
C5_ExactlyOnceFifo ==
    /\ enq_in = handled_in \o InHand(in_cur) \o handle_queue
    /\ enq_out = sent \o InHand(out_cur) \o send_queue
    /\ Range(handled_in) \cap Range(sent) = {}

C5_Witness ==
    /\ Len(handled_in) >= 1
    /\ Len(sent) >= 2
    /\ next_id > MaxEntries

\* C6: nothing is taken off the inbound queue or handled before run has
\* read is_private_key_loaded() as True, and nothing is ever taken off it
\* when a stop event was set during the key wait.
C6_KeyGatesInbound ==
    /\ (in_cur # 0 \/ handled_in # <<>>) => key_seen
    /\ stop_in_wait => (in_cur = 0 /\ handled_in = <<>>)

\* A stop event set during the key wait has ended run although the key was
\* then seen loaded and an entry is waiting on the queue.
C6_Witness ==
    /\ stop_in_wait /\ ipc = "done"
    /\ key_loaded /\ key_seen
    /\ handle_queue # <<>>

\* C8: an error raised by the send of one entry does not end
\* SenderThread.run.
C8_SendFailureNotFatal == opc # "raised"

(***************************************************************************)
(* Claims about validate_fields.                                           *)
(***************************************************************************)
\* C9: for a well-formed schema, validate_fields is true of the data that
\* matches it, and false of that data with one field removed or with the
\* type of one field changed.
C9_MatchingTrueChangedFalse ==
    v_pc # "call" =>
        /\ v_case.kind = "matching" => v_result = "True"
        /\ v_case.kind \in {"removed", "retyped"} => v_result = "False"

\* Every field of the schema is declared with a type marker.
FlatSchema == \A k \in 1..Len(v_struct.d) : v_struct.d[k][2].ty = "type"

\* The schema declares a field as int.
HasIntField == \E k \in 1..Len(v_struct.d) : v_struct.d[k][2] = PyType("int")

\* C11: for a field declared int (in a schema of type markers, the other
\* fields matching), validate_fields accepts a native integer and a string
\* of digits as its value, and rejects a float and a string that is not made
\* of digits.
C11_IntAcceptsDigitStrings ==
    (v_pc # "call" /\ FlatSchema /\ HasIntField) =>
        /\ v_case.kind \in {"matching", "int_digits"} => v_result = "True"
        /\ v_case.kind \in {"int_float", "int_text"} => v_result = "False"

\* C10: validate_fields does not raise on two dicts: it returns true or
\* false.
C10_NeverRaises ==
    v_pc # "call" => (v_pc = "returned" /\ v_result \in {"True", "False"})


(***************************************************************************)
(* The scheduler loop, iteration by iteration.                             *)
(***************************************************************************)
\* Ids of the jobs of the list.
ListIds == {jobs[k].id : k \in 1..Len(jobs)}

\* The body of the while loop is being executed.
InBody == jpc \in {"sub", "check", "run_action", "reset"}

\* The subtraction of the current iteration is complete.
Subtracted ==
    next_job # 0 /\ jpc \in {"check", "run_action", "reset", "run_raised"}

\* An iteration has ended and the next subtraction has not begun.
IterationDone ==
    next_job # 0 /\ jpc \in {"wait", "run_raised", "run_returned"}

\* C15: in every step of the scheduler loop, a job's remaining_time does
\* not increase, except in the step that resets the job whose action has
\* just run, after which it equals the job's default_schedule.
C15_RemainingTimeOnlyResetsUp ==
    [][\A j \in ListIds :
          JobOf(jobs', j).remaining_time > JobOf(jobs, j).remaining_time =>
              /\ jpc = "reset"
              /\ j = next_job
              /\ fired[j] = fired_before[j] + 1
              /\ JobOf(jobs', j).remaining_time = JobOf(jobs, j).default_schedule]_vars

\* A job has been run and reset above the value it had when the iteration
\* began, while another job keeps its decayed value.
C15_Witness ==
    /\ IterationDone
    /\ jpc = "wait"
    /\ fired[next_job] = fired_before[next_job] + 1
    /\ JobOf(jobs, next_job).remaining_time = JobOf(jobs, next_job).default_schedule
    /\ JobOf(jobs, next_job).remaining_time > before[next_job]
    /\ \E j \in ListIds \ {next_job} :
          JobOf(jobs, j).remaining_time < before[j]

\* C16: in every iteration the amount subtracted from the jobs, to_wait,
\* is the time the iteration waited on the stop event, and the total
\* subtracted is the total time elapsed.
C16_SubtractedIsTimeWaited ==
    InBody => (to_wait = waited /\ subtracted = elapsed)

\* C17: in an iteration only the job with the smallest remaining_time can
\* run, at most once, and exactly when its remaining_time is <= 0 after
\* the subtraction; every other job is decreased by to_wait and is neither
\* run nor reset, even when it has reached 0 too.
C17_OnlyNextJobRuns ==
    /\ (InBody \/ Subtracted \/ IterationDone) =>
          /\ \A j \in ListIds : before[next_job] <= before[j]
          /\ \A j \in ListIds \ {next_job} : fired[j] = fired_before[j]
          /\ fired[next_job] - fired_before[next_job] \in {0, 1}
    /\ (Subtracted \/ IterationDone) =>
          \A j \in ListIds \ {next_job} :
              JobOf(jobs, j).remaining_time = before[j] - to_wait
    /\ IterationDone =>
          /\ fired[next_job] = fired_before[next_job] + 1
                <=> before[next_job] - to_wait <= 0
          /\ JobOf(jobs, next_job).remaining_time =
                IF before[next_job] - to_wait <= 0 /\ jpc # "run_raised"
                THEN JobOf(jobs, next_job).default_schedule
                ELSE before[next_job] - to_wait

\* Two jobs reach 0 in the same iteration: one is run and reset, the other
\* stays at 0 without being run.
C17_Witness ==
    /\ IterationDone
    /\ jpc = "wait"
    /\ fired[next_job] = fired_before[next_job] + 1
    /\ JobOf(jobs, next_job).remaining_time > 0
    /\ \E j \in ListIds \ {next_job} :
          /\ JobOf(jobs, j).remaining_time = 0
          /\ JobOf(jobs, j).default_schedule > 0
          /\ before[j] = before[next_job]
          /\ fired[j] = fired_before[j]

\* C18: with intervals >= 0 and stop_delay > 0, every job of the scheduler
\* loop has 0 <= remaining_time <= default_schedule in every state.
C18_RemainingTimeInRange ==
    \A k \in 1..Len(jobs) :
        /\ 0 <= jobs[k].remaining_time
        /\ jobs[k].remaining_time <= jobs[k].default_schedule

\* A subtraction smaller than stop_delay has brought a job exactly to 0
\* while another job is strictly inside its range.
C18_Witness ==
    /\ jpc = "check"
    /\ 0 < to_wait
    /\ to_wait < stop_delay
    /\ JobOf(jobs, next_job).remaining_time = 0
    /\ \E j \in ListIds \ {next_job} :
          /\ 0 < JobOf(jobs, j).remaining_time
          /\ JobOf(jobs, j).remaining_time < JobOf(jobs, j).default_schedule


\* Jobs created with interval 0, and whether every interval is positive.
ZeroJobs == {j \in ListIds : JobOf(jobs, j).default_schedule = 0}

AllPositive == ZeroJobs = {}

Least(S) == CHOOSE x \in S : \A y \in S : x <= y

\* With a job of interval 0, to_wait is 0 in every iteration and only one
\* job, of interval 0, is ever taken as next_job.
ZeroIntervalBlocks ==
    (~AllPositive /\ next_job # 0) =>
        /\ to_wait = 0
        /\ next_job = Least(ZeroJobs)

\* C19: no starvation: when every interval is positive and the stop event
\* is never set, every job's action is run again and again, tied jobs
\* included; a job of interval 0 makes to_wait = 0 in every iteration, so
\* that no other job ever runs.
C19_NoStarvation ==
    /\ []ZeroIntervalBlocks
    /\ \A j \in JobIds :
          \/ <>stop_event
          \/ []<>(\/ ~AllPositive
                  \/ j \notin ListIds
                  \/ jpc = "run_action" /\ next_job = j)


IsPrefix(a, b) == Len(a) <= Len(b) /\ SubSeq(b, 1, Len(a)) = a

\* After the stop recorded in at, a thread has taken at most one more
\* entry, and the entries behind the head of the queue of that moment are
\* still on the queue, in order, not in hand and not processed.
AtMostOneMore(at, dequeued, queue, cur, processed) ==
    at.deq # -1 =>
        /\ dequeued <= at.deq + 1
        /\ at.queue # <<>> =>
              /\ IsPrefix(at.queue, queue) \/ IsPrefix(Tail(at.queue), queue)
              /\ \A p \in 2..Len(at.queue) :
                    /\ at.queue[p] \in Range(queue)
                    /\ at.queue[p] # cur
                    /\ at.queue[p] \notin Range(processed)

\* C20: after the global stop event or a thread's own stop event is set,
\* the thread takes at most one more entry off its queue; every other
\* entry that was on the queue at that moment stays there, neither
\* handled nor removed.
C20_AtMostOneDequeueAfterStop ==
    /\ AtMostOneMore(in_at_stop, InDequeued, handle_queue, in_cur, handled_in)
    /\ AtMostOneMore(out_at_stop, OutDequeued, send_queue, out_cur, sent)

\* The stop event was set with two entries queued: RequestHandlingThread
\* has handled the first and has ended with the second still queued.
C20_Witness ==
    /\ in_at_stop.deq # -1
    /\ Len(in_at_stop.queue) >= 2
    /\ InDequeued = in_at_stop.deq + 1
    /\ ipc = "done"
    /\ Head(in_at_stop.queue) \in Range(handled_in)
    /\ in_at_stop.queue[2] \in Range(handle_queue)


(***************************************************************************)
(* The verifiers and the export wrapper.                                   *)
(***************************************************************************)
NodeOrder == <<"structural", "construct", "size", "hash", "signature">>

\* The key of a node whose key can be constructed.
NodeKey(node) ==
    construct_rsa_object(Get(node, "rsa_n"), Get(node, "rsa_e")).key

\* Does the node pass this check; each check is defined for the nodes that
\* pass the checks before it.
NodePasses(check, node) ==
    CASE check = "structural" ->
            validate_fields(node, node_structure) = "True"
      [] check = "construct" ->
            construct_rsa_object(Get(node, "rsa_n"), Get(node, "rsa_e")).outcome = "key"
      [] check = "size" ->
            size_in_bits(NodeKey(node)) = rsa_keys_length
      [] check = "hash" ->
            hexdigest(get_public_key_hash(NodeKey(node))) = Get(node, "hash").s
      [] check = "signature" ->
            is_signature_valid(NodeKey(node), get_public_key_hash(NodeKey(node)),
                               deserialize_string(Get(node, "sig")))

\* C12: is_valid_node makes its checks in the order structural, key
\* construction, key size, hash, signature and returns False at the first
\* check that fails, a key that cannot be constructed included (no
\* exception leaves the call); a node whose key has not the configured
\* length is rejected even when its hash and its signature are valid.
C12_ChecksInOrderFirstFailureFalse ==
    /\ t_checks = SubSeq(NodeOrder, 1, Len(t_checks))
    /\ \A i \in 1..(Len(t_checks) - 1) : NodePasses(NodeOrder[i], t_input)
    /\ t_pc # "raised"
    /\ t_result \in {"none", "True", "False"}
    /\ t_pc = "returned" =>
          /\ t_result = "False" <=> ~NodePasses(NodeOrder[Len(t_checks)], t_input)
          /\ t_result = "True" <=> \A i \in 1..Len(NodeOrder) :
                                      NodePasses(NodeOrder[i], t_input)
    /\ (/\ t_pc = "returned"
        /\ NodePasses("structural", t_input)
        /\ NodePasses("construct", t_input)
        /\ ~NodePasses("size", t_input)) => t_result = "False"

\* A node with a key of another length, its hash and signature valid, has
\* been rejected by the size check, the third one made.
C12_Witness ==
    /\ t_pc = "returned"
    /\ t_result = "False"
    /\ t_checks = <<"structural", "construct", "size">>
    /\ size_in_bits(t_pub) # rsa_keys_length
    /\ NodePasses("hash", t_input)
    /\ NodePasses("signature", t_input)

\* The three conditions on an AES key dict and the author's public key.
AesStructureValid(key) == validate_fields(key, aes_key_structure) = "True"

AesHashValid(key) ==
    Get(key, "hash").s = hexdigest(hash_iterable(Get(key, "value")))

AesSignatureValid(key, rsa_public_key) ==
    is_signature_valid(rsa_public_key, hash_iterable(Get(key, "value")),
                       deserialize_string(Get(key, "sig")))

\* C13: verify_received_aes_key returns True only if the dict has the
\* structure of an AES key, its hash field is the hex digest of the hash
\* of value, and sig is a valid signature over that hash under the
\* author's public key; when the hash comparison or the signature
\* verification fails it returns False.
C13_AesKeyNeedsHashAndSignature ==
    /\ t_pc # "raised"
    /\ t_result \in {"none", "True", "False"}
    /\ t_pc = "returned" =>
          (t_result = "True" <=>
              /\ AesStructureValid(t_input)
              /\ AesHashValid(t_input)
              /\ AesSignatureValid(t_input, t_pub))

\* A key dict with the right hash and a signature of the author over
\* another digest has been rejected.
C13_Witness ==
    /\ t_pc = "returned"
    /\ t_result = "False"
    /\ t_checks = <<"structural", "hash", "signature">>
    /\ AesHashValid(t_input)
    /\ deserialize_string(Get(t_input, "sig")).by = t_pub.n
    /\ deserialize_string(Get(t_input, "sig")).over #
          hexdigest(hash_iterable(Get(t_input, "value")))

\* The wrapper does what validate_fields says: it returns the function's
\* dict, unchanged, when validate_fields accepts it and raises otherwise.
WrapperFollowsValidator ==
    x_pc = "called" =>
        LET valid == validate_fields(x_case.dictionary, mapping(x_args[1]))
        IN  /\ x_result.outcome = "returned" <=> valid = "True"
            /\ x_result.outcome = "returned" =>
                  x_result.value = x_case.dictionary
            /\ x_result.outcome # "returned" =>
                  /\ x_result.outcome \in {"ValueError", "KeyError"}
                  /\ x_result.value = PyNone

\* The dicts that are valid against a structure: the matching ones, a
\* string of digits allowed where an int is declared.
ValidKinds == {"matching", "int_digits"}

\* C14: a call of a function wrapped by validate_export_structure returns
\* the function's dict, unchanged, when the dict is valid against the
\* named structure, and raises otherwise: no dict that fails the
\* validation is returned.
C14_WrapperReturnsValidRaisesInvalid ==
    /\ WrapperFollowsValidator
    /\ x_pc = "called" =>
          (x_result.outcome = "returned" <=> x_case.kind \in ValidKinds)

====
